---- MODULE Spec2Model ----
(***************************************************************************)
(* Model of webpack.config.js: the module captures process.env.NODE_ENV    *)
(* once when it is loaded, and exports a function of the webpack --env     *)
(* object that returns the configuration object.                           *)
(*                                                                         *)
(* JavaScript values are modelled as pairs <<type, text>>, so that values  *)
(* of different JavaScript types are different and comparable.             *)
(***************************************************************************)
EXTENDS Naturals, Sequences

VARIABLES
  processEnv,   \* process.env.NODE_ENV of the running process (ambient)
  NODE_ENV,     \* the value captured by the module when it was loaded
  last,         \* the most recent invocation of the exported function
  earlier       \* some invocation made before it (history)

vars == <<processEnv, NODE_ENV, last, earlier>>

----------------------------------------------------------------------------
\* JavaScript values

Undefined == <<"undefined", "undefined">>
Null      == <<"null", "null">>
True      == <<"boolean", "true">>
False     == <<"boolean", "false">>
Str(s)    == <<"string", s>>
Num(n)    == <<"number", n>>

\* ECMAScript ToBoolean, as applied by the conditional operator ( ? : ).
ToBoolean(v) ==
  IF v[1] = "undefined" THEN FALSE
  ELSE IF v[1] = "null" THEN FALSE
  ELSE IF v[1] = "boolean" THEN v[2] = "true"
  ELSE IF v[1] = "number" THEN v[2] \notin {"0", "NaN"}
  ELSE IF v[1] = "string" THEN v[2] # ""
  ELSE TRUE

\* ECMAScript strict equality ( === ) on primitive values.
StrictEquals(a, b) ==
  /\ a[1] = b[1]
  /\ a[2] = b[2]
  /\ a[2] # "NaN"

----------------------------------------------------------------------------
\* Module constants

PRODUCTION == "production"

DEVELOPMENT == "development"

DEFAULT_EXCLUDE_RX == "/node_modules/"

WHATWG_FETCH == "imports-loader?this=>global!exports-loader?global.fetch!whatwg-fetch"

\* An argument of the exported function: undefined (no --env given), null,
\* a primitive, or an object whose properties mode and report read as the
\* given values (a missing property reads as undefined).
EnvObject(m, r) == [kind |-> "object", mode |-> m, report |-> r]

EnvUndefined == [kind |-> "undefined", mode |-> Undefined, report |-> Undefined]

EnvNull == [kind |-> "null", mode |-> Undefined, report |-> Undefined]

EnvPrimitive == [kind |-> "primitive", mode |-> Undefined, report |-> Undefined]

DEFAULT_ENV == EnvObject(Undefined, False)

----------------------------------------------------------------------------
\* Input domains explored by the model

NodeEnvValues == {Undefined, Str(PRODUCTION), Str(DEVELOPMENT), Str("staging")}

ModeValues == {Undefined, Str(PRODUCTION), Str("staging")}

ReportValues == {Undefined, True, False, Num("0"), Str("yes")}

EnvInputs ==
  {EnvUndefined, EnvNull, EnvPrimitive}
    \cup {EnvObject(m, r) : m \in ModeValues, r \in ReportValues}

----------------------------------------------------------------------------
\* The exported function, field by field

\* The default parameter (env = DEFAULT_ENV): only undefined takes the default.
DefaultParameter_NoDefault(raw) == raw

DefaultParameter(raw) == IF raw.kind = "undefined" THEN DEFAULT_ENV ELSE raw

\* devtool: NODE_ENV === PRODUCTION ? 'source-map' : 'eval-source-map'
Devtool_NotDevelopment ==
  IF ~StrictEquals(NODE_ENV, Str(DEVELOPMENT)) THEN "source-map" ELSE "eval-source-map"

Devtool_Swapped ==
  IF StrictEquals(NODE_ENV, Str(PRODUCTION)) THEN "eval-source-map" ELSE "source-map"

Devtool_Live ==
  IF StrictEquals(processEnv, Str(PRODUCTION)) THEN "source-map" ELSE "eval-source-map"

Devtool ==
  IF StrictEquals(NODE_ENV, Str(PRODUCTION)) THEN "source-map" ELSE "eval-source-map"

EslintRule ==
  [ enforce |-> "pre",
    exclude |-> DEFAULT_EXCLUDE_RX,
    loader  |-> "eslint-loader",
    options |-> [ emitError |-> TRUE, emitWarning |-> FALSE,
                  failOnError |-> TRUE, failOnWarning |-> FALSE,
                  formatter |-> "eslint-friendly-formatter", quiet |-> TRUE ],
    test    |-> "/\\.(js|json)$/" ]

\* The babel rule has no enforce property: webpack treats it as a normal rule.
BabelRule ==
  [ enforce |-> "undefined",
    exclude |-> DEFAULT_EXCLUDE_RX,
    loader  |-> "babel-loader",
    options |-> [ plugins |-> <<"lodash">>,
                  presets |-> << [ name |-> "env",
                                   options |-> [ modules |-> FALSE,
                                                 targets |-> [ node |-> 8 ] ] ] >> ],
    test    |-> "/\\.js$/" ]

Rules_Swapped == <<BabelRule, EslintRule>>

Rules == <<EslintRule, BabelRule>>

EnvironmentPlugin_ByMode ==
  [ name |-> "EnvironmentPlugin",
    options |-> [ DEBUG |-> FALSE,
                  NODE_ENV |-> IF StrictEquals(NODE_ENV, Str(PRODUCTION))
                               THEN PRODUCTION ELSE DEVELOPMENT ] ]

EnvironmentPlugin ==
  [ name |-> "EnvironmentPlugin",
    options |-> [ DEBUG |-> FALSE, NODE_ENV |-> DEVELOPMENT ] ]

ProvidePlugin ==
  [ name |-> "ProvidePlugin",
    options |-> [ fetch |-> WHATWG_FETCH, windowFetch |-> WHATWG_FETCH ] ]

LodashModuleReplacementPlugin ==
  [ name |-> "LodashModuleReplacementPlugin", options |-> [ paths |-> TRUE ] ]

UglifyJsPlugin ==
  [ name |-> "UglifyJsPlugin",
    options |-> [ parallel |-> TRUE, sourceMap |-> TRUE,
                  uglifyOptions |-> [ ecma |-> 8 ] ] ]

\* new BundleAnalyzerPlugin(): constructed without options.
BundleAnalyzerPlugin == [ name |-> "BundleAnalyzerPlugin" ]

\* ...(NODE_ENV === PRODUCTION ? [new webpack.optimize.UglifyJsPlugin({...})] : [])
UglifySpread_NotDevelopment ==
  IF ~StrictEquals(NODE_ENV, Str(DEVELOPMENT)) THEN <<UglifyJsPlugin>> ELSE <<>>

UglifySpread_Always == <<UglifyJsPlugin>>

UglifySpread ==
  IF StrictEquals(NODE_ENV, Str(PRODUCTION)) THEN <<UglifyJsPlugin>> ELSE <<>>

\* ...(env.report ? [new BundleAnalyzerPlugin()] : [])
AnalyzerSpread_StrictTrue(env) ==
  IF StrictEquals(env.report, True) THEN <<BundleAnalyzerPlugin>> ELSE <<>>

AnalyzerSpread(env) ==
  IF ToBoolean(env.report) THEN <<BundleAnalyzerPlugin>> ELSE <<>>

Plugins_AnalyzerFirst(env) ==
  <<EnvironmentPlugin, ProvidePlugin, LodashModuleReplacementPlugin>>
    \o AnalyzerSpread(env) \o UglifySpread

Plugins(env) ==
  <<EnvironmentPlugin, ProvidePlugin, LodashModuleReplacementPlugin>>
    \o UglifySpread \o AnalyzerSpread(env)

NodeShims ==
  [ child_process |-> "empty", dgram |-> "empty", fs |-> "empty",
    net |-> "empty", setImmediate |-> FALSE, tls |-> "empty" ]

Output ==
  [ filename |-> "index.js", library |-> "returnExports",
    libraryTarget |-> "umd", path |-> "__dirname/dist" ]

Resolve ==
  [ alias |-> [ RootDir |-> "__dirname", src |-> "__dirname/src" ],
    extensions |-> <<".js", ".json">> ]

Config(env) ==
  [ context |-> "__dirname",
    devtool |-> Devtool,
    entry   |-> <<"__dirname/src/index.js">>,
    rules   |-> Rules,
    node    |-> NodeShims,
    output  |-> Output,
    plugins |-> Plugins(env),
    resolve |-> Resolve ]

\* module.exports = (env = DEFAULT_ENV) => { return {...}; }
\* Reading env.report of null throws a TypeError out of the call.
module_exports(raw) ==
  LET env == DefaultParameter(raw) IN
    IF env.kind \in {"undefined", "null"}
    THEN [status |-> "threw", error |-> "TypeError"]
    ELSE [status |-> "returned", config |-> Config(env)]

----------------------------------------------------------------------------
\* The state machine

NoCall == [called |-> FALSE]

Call(raw) ==
  [called |-> TRUE, input |-> raw, nodeEnv |-> NODE_ENV, result |-> module_exports(raw)]

Init ==
  /\ processEnv \in NodeEnvValues
  /\ NODE_ENV = processEnv
  /\ last = NoCall
  /\ earlier = NoCall

\* The launcher (or anything in the process) sets the environment variable.
SetProcessEnv ==
  /\ \E v \in NodeEnvValues : processEnv' = v
  /\ UNCHANGED <<NODE_ENV, last, earlier>>

\* The module is loaded (again, by a new build run): const { NODE_ENV } = process.env
LoadModule ==
  /\ NODE_ENV' = processEnv
  /\ UNCHANGED <<processEnv, last, earlier>>

\* The exported function is invoked with an --env argument.
Invoke ==
  /\ \E raw \in EnvInputs : last' = Call(raw)
  /\ \/ earlier' = earlier
     \/ earlier' = last
  /\ UNCHANGED <<processEnv, NODE_ENV>>

Next == SetProcessEnv \/ LoadModule \/ Invoke

Spec == Init /\ [][Next]_vars

----------------------------------------------------------------------------
\* Vocabulary of the properties

Returned(c) == c.called /\ c.result.status = "returned"

PluginsOf(c) == c.result.config.plugins

PluginNames(c) == [i \in 1..Len(PluginsOf(c)) |-> PluginsOf(c)[i].name]

HasPlugin(c, n) == \E i \in 1..Len(PluginsOf(c)) : PluginsOf(c)[i].name = n

HasMinifier(c) == HasPlugin(c, "UglifyJsPlugin")

HasAnalyzer(c) == HasPlugin(c, "BundleAnalyzerPlugin")

UnconditionalNames ==
  <<"EnvironmentPlugin", "ProvidePlugin", "LodashModuleReplacementPlugin">>

\* The values the language treats as false in a condition.
FalsyValues == {Undefined, Null, False, Num("0"), Num("NaN"), Str("")}

ProductionLoaded(c) == c.nodeEnv = Str(PRODUCTION)

EmptyInput == EnvObject(Undefined, Undefined)

----------------------------------------------------------------------------
\* C1 (as stated): the minification plugin is in the plugin list iff the mode
\* signal carried by the override input equals "production".
C1_Original ==
  Returned(last) => (HasMinifier(last) <=> last.input.mode = Str(PRODUCTION))

\* C1 (amended): the minification plugin is in the plugin list iff the NODE_ENV
\* value the module captured when it was loaded equals "production", whatever
\* the input's mode field and for both values of the report flag; with NODE_ENV
\* "production" and no report the list has 4 plugins, minifier present,
\* analyzer absent.
C1_Amended ==
  Returned(last) =>
    /\ HasMinifier(last) <=> ProductionLoaded(last)
    /\ (ProductionLoaded(last) /\ last.input.report \in FalsyValues)
         => PluginNames(last) = UnconditionalNames \o <<"UglifyJsPlugin">>

C1_Witness ==
  /\ Returned(last)
  /\ last.input = EnvObject(Str("staging"), Undefined)
  /\ ProductionLoaded(last)
  /\ Len(PluginsOf(last)) = 4
  /\ HasMinifier(last)
  /\ ~HasAnalyzer(last)

\* C2 (as stated): the analysis plugin is in the plugin list iff the input's
\* report field is exactly the boolean true.
C2_Original ==
  Returned(last) => (HasAnalyzer(last) <=> last.input.report = True)

\* C2 (amended): for every input on which the call returns, the analysis plugin
\* is in the plugin list iff the input's report field is truthy (anything but
\* an absent field or input, undefined, null, false, 0, NaN, ""), whatever the
\* mode.
C2_Amended ==
  Returned(last) => (HasAnalyzer(last) <=> last.input.report \notin FalsyValues)

C2_Witness ==
  /\ Returned(last)
  /\ last.input.report = Str("yes")
  /\ HasAnalyzer(last)
  /\ ~ProductionLoaded(last)

\* C3: the three unconditional plugins are at positions 0, 1, 2 in the order
\* environment injection, fetch provisioning, utility-library reduction; every
\* active conditional plugin comes after them; when both are active the list
\* has 5 entries with the minifier at 3 and the analyzer at 4 (here 4 and 5:
\* sequences start at 1).
C3_PluginOrder ==
  Returned(last) =>
    /\ Len(PluginsOf(last)) >= 3
    /\ SubSeq(PluginNames(last), 1, 3) = UnconditionalNames
    /\ \A i \in 1..Len(PluginsOf(last)) :
         PluginNames(last)[i] \in {"UglifyJsPlugin", "BundleAnalyzerPlugin"} => i > 3
    /\ (HasMinifier(last) /\ HasAnalyzer(last)) =>
         /\ Len(PluginsOf(last)) = 5
         /\ PluginNames(last)[4] = "UglifyJsPlugin"
         /\ PluginNames(last)[5] = "BundleAnalyzerPlugin"

C3_Witness ==
  /\ Returned(last)
  /\ HasMinifier(last)
  /\ HasAnalyzer(last)
  /\ Len(PluginsOf(last)) = 5

\* C4 (as stated): for every override record whose mode signal is absent or
\* not "production", devtool is 'eval-source-map' and the plugin list has
\* exactly 3 entries.
C4_Original ==
  (last.called /\ last.input.kind = "object" /\ last.input.mode # Str(PRODUCTION)) =>
    /\ Returned(last)
    /\ last.result.config.devtool = "eval-source-map"
    /\ Len(PluginsOf(last)) = 3

\* C4 (amended): for every override input other than null whose report field
\* is falsy, when the captured NODE_ENV is absent or any value other than
\* "production" (e.g. "staging"), whatever the input's mode field, the call
\* returns, devtool is 'eval-source-map', the plugin list is exactly the 3
\* unconditional plugins, and the whole configuration equals the one produced
\* for {} under any non-production NODE_ENV.
C4_Amended ==
  (/\ last.called
   /\ last.input.kind # "null"
   /\ ~ProductionLoaded(last)
   /\ last.input.report \in FalsyValues) =>
    /\ Returned(last)
    /\ last.result.config.devtool = "eval-source-map"
    /\ PluginNames(last) = UnconditionalNames
    /\ (earlier.called /\ earlier.input = EmptyInput /\ ~ProductionLoaded(earlier))
         => last.result = earlier.result

C4_Witness ==
  /\ Returned(last)
  /\ last.input = EnvObject(Str("staging"), Undefined)
  /\ last.nodeEnv = Str("staging")
  /\ Returned(earlier)
  /\ earlier.input = EmptyInput
  /\ earlier.nodeEnv = Undefined
  /\ last.result = earlier.result

\* C5: devtool is 'source-map' when the resolved mode is Production (the
\* captured NODE_ENV equals "production") and 'eval-source-map' otherwise, and
\* two configurations built in the same mode have the same devtool whatever
\* their report flags.
C5_DevtoolByMode ==
  Returned(last) =>
    /\ last.result.config.devtool =
         IF ProductionLoaded(last) THEN "source-map" ELSE "eval-source-map"
    /\ (Returned(earlier) /\ ProductionLoaded(earlier) = ProductionLoaded(last))
         => earlier.result.config.devtool = last.result.config.devtool

C5_Witness ==
  /\ Returned(last)
  /\ Returned(earlier)
  /\ ProductionLoaded(last)
  /\ ProductionLoaded(earlier)
  /\ HasAnalyzer(last)
  /\ ~HasAnalyzer(earlier)
  /\ last.result.config.devtool = "source-map"

\* C6: the rule list has exactly two rules, the lint rule (enforce 'pre') at
\* position 0 and the language-transform rule (no enforce: a normal rule) at
\* position 1 (here 1 and 2), both with the same dependency-directory exclude
\* pattern, and the list is the same for every environment.
C6_Rules ==
  Returned(last) =>
    LET rules == last.result.config.rules IN
      /\ Len(rules) = 2
      /\ rules[1].enforce = "pre"
      /\ rules[1].loader = "eslint-loader"
      /\ rules[2].enforce = "undefined"
      /\ rules[2].loader = "babel-loader"
      /\ rules[1].exclude = DEFAULT_EXCLUDE_RX
      /\ rules[2].exclude = rules[1].exclude
      /\ Returned(earlier) => earlier.result.config.rules = rules

C6_Witness ==
  /\ Returned(last)
  /\ Returned(earlier)
  /\ ProductionLoaded(last)
  /\ ~ProductionLoaded(earlier)
  /\ HasAnalyzer(last)
  /\ ~HasAnalyzer(earlier)
  /\ Len(last.result.config.rules) = 2
  /\ earlier.result.config.rules = last.result.config.rules

\* C7 (as stated): every invocation returns a configuration, whatever the raw
\* input.
C7_Original == last.called => last.result.status = "returned"

\* C7 (amended): every invocation whose raw input is not null (an absent input,
\* an empty record, a record omitting mode or report, a record with
\* unrecognized or ill-typed values, a primitive) returns a configuration and
\* raises no error.
C7_Amended ==
  (last.called /\ last.input.kind # "null") => last.result.status = "returned"

C7_Witness ==
  /\ last.called
  /\ last.input.kind = "undefined"
  /\ last.result.status = "returned"
  /\ Len(PluginsOf(last)) = 3

\* C8 (as stated): two invocations with equal inputs have equal outcomes,
\* whatever the ambient process state.
C8_Original ==
  (earlier.called /\ last.called /\ earlier.input = last.input)
    => earlier.result = last.result

\* C8 (amended): two invocations with equal inputs made under the same captured
\* NODE_ENV value (the same load of the module) have equal outcomes, whatever
\* the earlier invocations and whatever process.env.NODE_ENV has become since
\* the load.
C8_Amended ==
  (/\ earlier.called
   /\ last.called
   /\ earlier.input = last.input
   /\ earlier.nodeEnv = last.nodeEnv)
    => earlier.result = last.result

C8_Witness ==
  /\ Returned(earlier)
  /\ Returned(last)
  /\ earlier.input = last.input
  /\ earlier.nodeEnv = last.nodeEnv
  /\ ProductionLoaded(last)
  /\ processEnv # NODE_ENV
  /\ earlier.result = last.result

\* C9 (as stated): the environment-injection plugin at position 0 is configured
\* with debug false and with the mode string of the resolved mode: "production"
\* in Production, "development" in Development.
C9_Original ==
  Returned(last) =>
    /\ PluginsOf(last)[1].name = "EnvironmentPlugin"
    /\ PluginsOf(last)[1].options.DEBUG = FALSE
    /\ PluginsOf(last)[1].options.NODE_ENV =
         IF ProductionLoaded(last) THEN PRODUCTION ELSE DEVELOPMENT

\* C9 (amended): the environment-injection plugin at position 0 is configured
\* with debug false and with the mode string "development" in every
\* environment, Production included (both are defaults, which the plugin
\* replaces by the process's own variables when these are defined).
C9_Amended ==
  Returned(last) =>
    /\ PluginsOf(last)[1].name = "EnvironmentPlugin"
    /\ PluginsOf(last)[1].options.DEBUG = FALSE
    /\ PluginsOf(last)[1].options.NODE_ENV = DEVELOPMENT

C9_Witness ==
  /\ Returned(last)
  /\ ProductionLoaded(last)
  /\ PluginsOf(last)[1].name = "EnvironmentPlugin"
  /\ PluginsOf(last)[1].options.NODE_ENV = DEVELOPMENT

\* C10: the minification plugin (configured with sourceMap: true) is present
\* iff devtool is 'source-map', for every mode and report flag.
C10_MinifierIffSourceMap ==
  Returned(last) =>
    /\ HasMinifier(last) <=> last.result.config.devtool = "source-map"
    /\ \A i \in 1..Len(PluginsOf(last)) :
         PluginsOf(last)[i].name = "UglifyJsPlugin"
           => PluginsOf(last)[i].options.sourceMap = TRUE

C10_Witness ==
  /\ Returned(last)
  /\ HasMinifier(last)
  /\ last.input.report = True
  /\ last.result.config.devtool = "source-map"
  /\ Returned(earlier)
  /\ ~HasMinifier(earlier)
  /\ earlier.result.config.devtool = "eval-source-map"

====
